---- MODULE Spec2Model ----
(***************************************************************************)
(* Model of pybio/torch/transformations/generic.py: the four per-tensor    *)
(* transformations AsType, EnsureTorch, EnsureNumpy and AverageChannels.   *)
(*                                                                         *)
(* A tensor-like value is a record                                         *)
(*   kind           "ndarray" (numpy.ndarray) or "tensor" (torch.Tensor)   *)
(*   id             identity of the Python object (x is y  <=>  same id    *)
(*                  and same content); every library call that builds a    *)
(*                  new object returns id + 1                              *)
(*   dtype          element type                                           *)
(*   shape          tuple of axis sizes                                    *)
(*   data           function from index tuples (0-based) to elements       *)
(*   requires_grad  attached to an autograd graph                          *)
(*   device         "cpu" or "cuda"                                        *)
(* An element is an exact rational [n, d] with d > 0, or NaN (d = 0).      *)
(* Floating-point rounding is not modelled: a mean is the exact quotient.  *)
(***************************************************************************)
EXTENDS Integers, Sequences, FiniteSets, TLC

VARIABLES transform, constructed, call, before

vars == <<transform, constructed, call, before>>

(* ------------------------------ bounds --------------------------------- *)

\* channel counts 0..MaxChannels of the generated inputs
MaxChannels == 4
\* configured channel bounds range over None and -MaxNegative..MaxChannels+1
MaxNegative == 1
\* spatial extent of the generated inputs
MaxWidth == 2

(* ----------------------------- elements -------------------------------- *)

Q(i) == [n |-> i, d |-> 1]

NaN == [n |-> 0, d |-> 0]

Abs(i) == IF i < 0 THEN -i ELSE i

RECURSIVE GCD(_, _)
GCD(a, b) == IF b = 0 THEN a ELSE GCD(b, a % b)

Norm(n, d) == LET g == GCD(Abs(n), d) IN [n |-> n \div g, d |-> d \div g]

QAdd(a, b) == IF a.d = 0 \/ b.d = 0 THEN NaN
              ELSE Norm(a.n * b.d + b.n * a.d, a.d * b.d)

\* a / k in floating point: 0/0 and NaN/k are NaN
QDiv(a, k) == IF a.d = 0 \/ k = 0 THEN NaN ELSE Norm(a.n, a.d * k)

\* rounding toward zero, as a float -> integer cast does
Trunc(a) == IF a.n >= 0 THEN a.n \div a.d ELSE -((-a.n) \div a.d)

\* two's complement wrap of an integer to w bits, signed.  The integers of the
\* model are themselves 32-bit, so every one of them is its own 32-bit wrap.
WrapSigned(i, w) == IF w >= 32 THEN i ELSE ((i + 2^(w-1)) % 2^w) - 2^(w-1)

IsFloating(dtype) == dtype \in {"float32", "float64"}

IntWidth(dtype) == IF dtype = "int16" THEN 16 ELSE 32

\* one element cast to dtype; u is what the platform yields for NaN -> integer
CastElem(a, dtype, u) ==
    IF IsFloating(dtype) THEN a
    ELSE IF a.d = 0 THEN Q(u)
    ELSE Q(WrapSigned(Trunc(a), IntWidth(dtype)))

(* ------------------------------ values --------------------------------- *)

MaxOf(s) == IF s = {} THEN 0 ELSE CHOOSE m \in s : \A k \in s : k <= m

Idx(shape) ==
    LET hi == MaxOf({shape[k] : k \in 1..Len(shape)})
    IN {i \in [1..Len(shape) -> 0..(hi - 1)] : \A k \in 1..Len(shape) : i[k] < shape[k]}

NoValue == [kind |-> "none", id |-> 0, dtype |-> "", shape |-> <<>>,
            data |-> <<>>, requires_grad |-> FALSE, device |-> ""]

Ret(self, v, ops) == [self |-> self, raised |-> "", value |-> v, ops |-> ops]

Raise(self, e, ops) == [self |-> self, raised |-> e, value |-> NoValue, ops |-> ops]

(* ------------------- the libraries, as the code uses them -------------- *)

\* Optional[int]
None == [isNone |-> TRUE, v |-> 0]

Some(i) == [isNone |-> FALSE, v |-> i]

\* getattr(torch, name): the attributes of the torch module the model knows.
\* torch.float is an alias of torch.float32; torch.Tensor is a class, not a dtype.
TorchAttrs == {"float32", "float", "int32", "Tensor"}

TorchDtypeOf(name) == IF name = "float" THEN "float32" ELSE name

IsTorchDtype(name) == name \in {"float32", "float", "int32"}

\* element types torch.from_numpy accepts (uint16 is not one: generic.py line 29)
FromNumpySupported == {"float32", "int32", "int16"}

\* numpy.ndarray.astype(dtype): a new array, every element cast
numpy_astype(a, dtype) ==
    [a EXCEPT !.id = a.id + 1, !.dtype = dtype,
              !.data = [i \in DOMAIN a.data |-> CastElem(a.data[i], dtype, 0)]]

\* torch.from_numpy(a): a new tensor on the same elements
torch_from_numpy(a) ==
    [a EXCEPT !.kind = "tensor", !.id = a.id + 1]

\* torch.Tensor.detach(): a new tensor outside the autograd graph
Tensor_detach(t) == [t EXCEPT !.id = t.id + 1, !.requires_grad = FALSE]

\* torch.Tensor.cpu(): the tensor itself when already in host memory
Tensor_cpu(t) == IF t.device = "cpu" THEN t
                 ELSE [t EXCEPT !.id = t.id + 1, !.device = "cpu"]

\* torch.Tensor.numpy() refuses graph-attached and device-resident tensors
Tensor_numpy_error(t) ==
    IF t.requires_grad THEN "RuntimeError"
    ELSE IF t.device # "cpu" THEN "TypeError"
    ELSE ""

Tensor_numpy(t) == [t EXCEPT !.kind = "ndarray", !.id = t.id + 1]

\* torch.Tensor.type(dtype, non_blocking): the tensor itself when it already
\* has the type, a cast copy otherwise
Tensor_type(t, dtype, non_blocking, u) ==
    IF t.dtype = dtype THEN t
    ELSE [t EXCEPT !.id = t.id + 1, !.dtype = dtype,
                   !.requires_grad = t.requires_grad /\ IsFloating(dtype),
                   !.data = [i \in DOMAIN t.data |-> CastElem(t.data[i], dtype, u)]]

\* start:stop of a Python slice over an axis of n entries
SliceLo(start, n) == IF start < 0 THEN (IF start + n < 0 THEN 0 ELSE start + n)
                     ELSE IF start > n THEN n ELSE start

SliceLen(start, stop, n) ==
    LET lo == SliceLo(start, n)
        hi == SliceLo(stop, n)
    IN IF hi > lo THEN hi - lo ELSE 0

\* tensor[:, start:stop]
GetItem(t, start, stop) ==
    LET n     == t.shape[2]
        lo    == SliceLo(start, n)
        shape == [t.shape EXCEPT ![2] = SliceLen(start, stop, n)]
    IN [t EXCEPT !.id = t.id + 1, !.shape = shape,
                 !.data = [i \in Idx(shape) |-> t.data[[i EXCEPT ![2] = i[2] + lo]]]]

RECURSIVE SumAxis1(_, _, _)
SumAxis1(data, i, n) ==
    IF n = 0 THEN Q(0)
    ELSE QAdd(SumAxis1(data, i, n - 1), data[[i EXCEPT ![2] = n - 1]])

\* torch.mean(t, 1, keepdim=True) rejects what is no tensor and integer tensors
torch_mean_error(t) ==
    IF t.kind # "tensor" THEN "TypeError"
    ELSE IF ~IsFloating(t.dtype) THEN "RuntimeError"
    ELSE ""

torch_mean(t) ==
    LET n     == t.shape[2]
        shape == [t.shape EXCEPT ![2] = 1]
    IN [t EXCEPT !.id = t.id + 1, !.shape = shape,
                 !.data = [i \in Idx(shape) |-> QDiv(SumAxis1(t.data, i, n), n)]]

(* --------------------------- the transformations ----------------------- *)

NoTransform == [cls |-> "none"]

\* [variant] AsType.__init__ without the isinstance check of line 13
AsType_init_unchecked(dtype, non_blocking) ==
    IF dtype \notin TorchAttrs
    THEN Raise(NoTransform, "AttributeError", <<"getattr">>)
    ELSE Ret([cls |-> "AsType",
              kwargs |-> [dtype |-> TorchDtypeOf(dtype), non_blocking |-> non_blocking]],
             NoValue, <<"getattr">>)

\* AsType.__init__
AsType_init(dtype, non_blocking) ==
    IF dtype \notin TorchAttrs
    THEN Raise(NoTransform, "AttributeError", <<"getattr">>)
    ELSE IF ~IsTorchDtype(dtype)
    THEN Raise(NoTransform, "TypeError", <<"getattr">>)
    ELSE Ret([cls |-> "AsType",
              kwargs |-> [dtype |-> TorchDtypeOf(dtype), non_blocking |-> non_blocking]],
             NoValue, <<"getattr">>)

TypeOp(dtype, non_blocking) ==
    IF non_blocking THEN "type(" \o dtype \o ", non_blocking=True)"
    ELSE "type(" \o dtype \o ", non_blocking=False)"

\* [variant] AsType.apply_to_chosen passing the dtype alone to Tensor.type
AsType_apply_to_chosen_dtype_only(self, tensor, u) ==
    IF tensor.kind # "tensor"
    THEN Raise(self, "AttributeError", <<>>)
    ELSE Ret(self,
             Tensor_type(tensor, self.kwargs.dtype, FALSE, u),
             <<TypeOp(self.kwargs.dtype, FALSE)>>)

\* AsType.apply_to_chosen; u: see CastElem
AsType_apply_to_chosen(self, tensor, u) ==
    IF tensor.kind # "tensor"
    THEN Raise(self, "AttributeError", <<>>)
    ELSE Ret(self,
             Tensor_type(tensor, self.kwargs.dtype, self.kwargs.non_blocking, u),
             <<TypeOp(self.kwargs.dtype, self.kwargs.non_blocking)>>)

\* [variant] EnsureTorch.apply_to_chosen widening uint16 to int16
EnsureTorch_apply_to_chosen_int16(self, tensor) ==
    IF tensor.kind = "ndarray"
    THEN LET widen  == tensor.dtype = "uint16"
             arr    == IF widen THEN numpy_astype(tensor, "int16") ELSE tensor
             ops    == IF widen THEN <<"astype(int16)", "from_numpy">>
                       ELSE <<"from_numpy">>
         IN IF arr.dtype \in FromNumpySupported
            THEN Ret(self, torch_from_numpy(arr), ops)
            ELSE Raise(self, "TypeError", ops)
    ELSE Ret(self, tensor, <<>>)

\* [variant] EnsureTorch.apply_to_chosen widening uint16 to float32
EnsureTorch_apply_to_chosen_float32(self, tensor) ==
    IF tensor.kind = "ndarray"
    THEN LET widen  == tensor.dtype = "uint16"
             arr    == IF widen THEN numpy_astype(tensor, "float32") ELSE tensor
             ops    == IF widen THEN <<"astype(float32)", "from_numpy">>
                       ELSE <<"from_numpy">>
         IN IF arr.dtype \in FromNumpySupported
            THEN Ret(self, torch_from_numpy(arr), ops)
            ELSE Raise(self, "TypeError", ops)
    ELSE Ret(self, tensor, <<>>)

\* [variant] EnsureTorch.apply_to_chosen without lines 29-30
EnsureTorch_apply_to_chosen_no_widen(self, tensor) ==
    IF tensor.kind = "ndarray"
    THEN IF tensor.dtype \in FromNumpySupported
         THEN Ret(self, torch_from_numpy(tensor), <<"from_numpy">>)
         ELSE Raise(self, "TypeError", <<"from_numpy">>)
    ELSE Ret(self, tensor, <<>>)

\* [variant] EnsureTorch.apply_to_chosen returning a copy of a torch.Tensor
EnsureTorch_apply_to_chosen_copy(self, tensor) ==
    IF tensor.kind = "ndarray"
    THEN LET widen  == tensor.dtype = "uint16"
             arr    == IF widen THEN numpy_astype(tensor, "int32") ELSE tensor
             ops    == IF widen THEN <<"astype(int32)", "from_numpy">>
                       ELSE <<"from_numpy">>
         IN IF arr.dtype \in FromNumpySupported
            THEN Ret(self, torch_from_numpy(arr), ops)
            ELSE Raise(self, "TypeError", ops)
    ELSE Ret(self, [tensor EXCEPT !.id = tensor.id + 1], <<"clone">>)

\* EnsureTorch.apply_to_chosen
EnsureTorch_apply_to_chosen(self, tensor) ==
    IF tensor.kind = "ndarray"
    THEN LET widen  == tensor.dtype = "uint16"
             arr    == IF widen THEN numpy_astype(tensor, "int32") ELSE tensor
             ops    == IF widen THEN <<"astype(int32)", "from_numpy">>
                       ELSE <<"from_numpy">>
         IN IF arr.dtype \in FromNumpySupported
            THEN Ret(self, torch_from_numpy(arr), ops)
            ELSE Raise(self, "TypeError", ops)
    ELSE Ret(self, tensor, <<>>)

\* [variant] EnsureNumpy.apply_to_chosen as tensor.cpu().numpy()
EnsureNumpy_apply_to_chosen_no_detach(self, tensor) ==
    IF tensor.kind # "ndarray"
    THEN LET t == Tensor_cpu(tensor)
         IN IF Tensor_numpy_error(t) # ""
            THEN Raise(self, Tensor_numpy_error(t), <<"cpu", "numpy">>)
            ELSE Ret(self, Tensor_numpy(t), <<"cpu", "numpy">>)
    ELSE Ret(self, tensor, <<>>)

\* EnsureNumpy.apply_to_chosen
EnsureNumpy_apply_to_chosen(self, tensor) ==
    IF tensor.kind # "ndarray"
    THEN LET t == Tensor_cpu(Tensor_detach(tensor))
         IN IF Tensor_numpy_error(t) # ""
            THEN Raise(self, Tensor_numpy_error(t), <<"detach", "cpu", "numpy">>)
            ELSE Ret(self, Tensor_numpy(t), <<"detach", "cpu", "numpy">>)
    ELSE Ret(self, tensor, <<>>)

\* AverageChannels.__init__
AverageChannels_init(start_channel, stop_channel) ==
    Ret([cls |-> "AverageChannels",
         start_channel |-> start_channel, stop_channel |-> stop_channel],
        NoValue, <<>>)

\* [variant] AverageChannels.apply_to_chosen without `stop_channel > n_channels`
AverageChannels_apply_to_chosen_no_upper(self, tensor) ==
    IF Len(tensor.shape) < 2
    THEN Raise(self, "IndexError", <<>>)
    ELSE LET n_channels   == tensor.shape[2]
             start_channel == IF self.start_channel.isNone THEN 0
                              ELSE self.start_channel.v
             stop_channel  == IF self.stop_channel.isNone THEN n_channels
                              ELSE self.stop_channel.v
             sliced        == GetItem(tensor, start_channel, stop_channel)
         IN IF start_channel >= stop_channel
            THEN Raise(self, "ValueError", <<>>)
            ELSE IF torch_mean_error(sliced) # ""
            THEN Raise(self, torch_mean_error(sliced), <<"getitem", "mean">>)
            ELSE Ret(self, torch_mean(sliced), <<"getitem", "mean">>)

\* [variant] AverageChannels.apply_to_chosen storing the resolved bounds in self
AverageChannels_apply_to_chosen_writeback(self, tensor) ==
    IF Len(tensor.shape) < 2
    THEN Raise(self, "IndexError", <<>>)
    ELSE LET n_channels   == tensor.shape[2]
             start_channel == IF self.start_channel.isNone THEN 0
                              ELSE self.start_channel.v
             stop_channel  == IF self.stop_channel.isNone THEN n_channels
                              ELSE self.stop_channel.v
             resolved      == [self EXCEPT !.start_channel = Some(start_channel),
                                           !.stop_channel = Some(stop_channel)]
             sliced        == GetItem(tensor, start_channel, stop_channel)
         IN IF start_channel >= stop_channel \/ stop_channel > n_channels
            THEN Raise(resolved, "ValueError", <<>>)
            ELSE IF torch_mean_error(sliced) # ""
            THEN Raise(resolved, torch_mean_error(sliced), <<"getitem", "mean">>)
            ELSE Ret(resolved, torch_mean(sliced), <<"getitem", "mean">>)

\* AverageChannels.apply_to_chosen
AverageChannels_apply_to_chosen(self, tensor) ==
    IF Len(tensor.shape) < 2
    THEN Raise(self, "IndexError", <<>>)
    ELSE LET n_channels   == tensor.shape[2]
             start_channel == IF self.start_channel.isNone THEN 0
                              ELSE self.start_channel.v
             stop_channel  == IF self.stop_channel.isNone THEN n_channels
                              ELSE self.stop_channel.v
             sliced        == GetItem(tensor, start_channel, stop_channel)
         IN IF start_channel >= stop_channel \/ stop_channel > n_channels
            THEN Raise(self, "ValueError", <<>>)
            ELSE IF torch_mean_error(sliced) # ""
            THEN Raise(self, torch_mean_error(sliced), <<"getitem", "mean">>)
            ELSE Ret(self, torch_mean(sliced), <<"getitem", "mean">>)

(* ------------------------------- inputs -------------------------------- *)

\* element at index i of the generated inputs: per channel 5, 65535, 32768,
\* 10, 13, ..., less the position along the last axis (never below 0)
Ramp(c) == IF c = 0 THEN 5 ELSE IF c = 1 THEN 65535
           ELSE IF c = 2 THEN 32768 ELSE 3 * c + 1

RampElem(i) == Q(Ramp(IF Len(i) >= 2 THEN i[2] ELSE 0) - i[Len(i)])

\* (kind, dtype, requires_grad, device) of the generated inputs
ArrayStates ==
    {<<"ndarray", "uint16", FALSE, "cpu">>, <<"ndarray", "int32", FALSE, "cpu">>,
     <<"ndarray", "float32", FALSE, "cpu">>, <<"ndarray", "uint32", FALSE, "cpu">>}

HostFloat == <<"tensor", "float32", FALSE, "cpu">>

TensorStates ==
    {<<"tensor", "int32", FALSE, "cpu">>, HostFloat,
     <<"tensor", "float32", TRUE, "cpu">>, <<"tensor", "float32", TRUE, "cuda">>}

\* a new value of the given shape: all elements 5, or the ramp
MkValue(ts, shape, allFive) ==
    [kind |-> ts[1], id |-> 1, dtype |-> ts[2], shape |-> shape,
     data |-> [i \in Idx(shape) |-> IF allFive THEN Q(5) ELSE RampElem(i)],
     requires_grad |-> ts[3], device |-> ts[4]]

\* the host array of shape [2,4,3,3], unsigned 16-bit, all values 5
ScenarioArray == MkValue(<<"ndarray", "uint16", FALSE, "cpu">>, <<2, 4, 3, 3>>, TRUE)

\* three channels: the values 5, 65535 and 32768 all occur (uint16 values stay
\* within 0..65535)
ThreeChannels == <<1, 3, MaxWidth>>

\* one axis only, and every channel count 0..MaxChannels
Shapes == {<<MaxWidth + 1>>} \cup {<<1, c, MaxWidth>> : c \in 0..MaxChannels}

\* the inputs of a call vary what the called code reads: the kind, element type
\* and placement for the conversions, the shape as well for AverageChannels
TensorInputs == {MkValue(ts, ThreeChannels, FALSE) : ts \in TensorStates}

ArrayInputs == {MkValue(ts, ThreeChannels, FALSE) : ts \in ArrayStates}
               \cup {ScenarioArray}

ChannelInputs == {MkValue(HostFloat, shape, FALSE) : shape \in Shapes}

Inputs(op) ==
    IF op = "AsType" THEN TensorInputs
    ELSE IF op = "AverageChannels" THEN TensorInputs \cup ChannelInputs
    ELSE TensorInputs \cup ArrayInputs

OptBounds == {None} \cup {Some(i) : i \in (0 - MaxNegative)..(MaxChannels + 1)}

DtypeArgs == TorchAttrs \cup {"no_such_dtype"}

\* what a platform yields for a NaN -> int32 cast
NanCasts == {0, (0 - 2^30) * 2}

(* ---------------------------- the state machine ------------------------ *)

\* transform    the configurable transformation built so far (AsType or
\*              AverageChannels), NoTransform before
\* constructed  what its constructor returned
\* call         the last call: operation, arguments, input, outcome
\* before       the call whose result was the input of `call`, else NoCall

NoCall == [op |-> "none", args |-> <<>>, input |-> NoValue, raised |-> "",
           value |-> NoValue, ops |-> <<>>]

Call(op, args, input, r) ==
    [op |-> op, args |-> args, input |-> input, raised |-> r.raised,
     value |-> r.value, ops |-> r.ops]

EnsureTorchObj == [cls |-> "EnsureTorch"]

EnsureNumpyObj == [cls |-> "EnsureNumpy"]

Init ==
    /\ transform = NoTransform
    /\ constructed = NoTransform
    /\ call = NoCall
    /\ before = NoCall

\* transform = AsType(dtype, non_blocking)
NewAsType ==
    /\ transform = NoTransform
    /\ \E dtype \in DtypeArgs, non_blocking \in BOOLEAN :
          LET r == AsType_init(dtype, non_blocking)
          IN /\ transform' = r.self
             /\ constructed' = r.self
             /\ call' = Call("AsType.__init__", <<dtype, non_blocking>>, NoValue, r)
    /\ before' = NoCall

\* transform = AverageChannels(start_channel, stop_channel)
NewAverageChannels ==
    /\ transform = NoTransform
    /\ \E start_channel \in OptBounds, stop_channel \in OptBounds :
          LET r == AverageChannels_init(start_channel, stop_channel)
          IN /\ transform' = r.self
             /\ constructed' = r.self
             /\ call' = Call("AverageChannels.__init__",
                             <<start_channel, stop_channel>>, NoValue, r)
    /\ before' = NoCall

\* the input of a call: a new value, or the result of the last call when that
\* call was itself given a new value (two-stage pipelines)
Fresh(op, x) == x \in Inputs(op) /\ before' = NoCall

Piped(x) == /\ call.raised = ""
            /\ call.value.kind # "none"
            /\ before = NoCall
            /\ x = call.value
            /\ before' = call

CallAsType ==
    /\ transform.cls = "AsType"
    /\ \E x \in Inputs("AsType") \cup {call.value}, u \in NanCasts :
          /\ Fresh("AsType", x) \/ Piped(x)
          /\ LET r == AsType_apply_to_chosen(transform, x, u)
             IN /\ transform' = r.self
                /\ call' = Call("AsType", <<u>>, x, r)
    /\ UNCHANGED constructed

CallEnsureTorch ==
    /\ \E x \in Inputs("EnsureTorch") \cup {call.value} :
          /\ Fresh("EnsureTorch", x) \/ Piped(x)
          /\ call' = Call("EnsureTorch", <<>>, x,
                          EnsureTorch_apply_to_chosen(EnsureTorchObj, x))
    /\ UNCHANGED <<transform, constructed>>

CallEnsureNumpy ==
    /\ \E x \in Inputs("EnsureNumpy") \cup {call.value} :
          /\ Fresh("EnsureNumpy", x) \/ Piped(x)
          /\ call' = Call("EnsureNumpy", <<>>, x,
                          EnsureNumpy_apply_to_chosen(EnsureNumpyObj, x))
    /\ UNCHANGED <<transform, constructed>>

CallAverageChannels ==
    /\ transform.cls = "AverageChannels"
    /\ \E x \in Inputs("AverageChannels") \cup {call.value} :
          /\ Fresh("AverageChannels", x) \/ Piped(x)
          /\ LET r == AverageChannels_apply_to_chosen(transform, x)
             IN /\ transform' = r.self
                /\ call' = Call("AverageChannels", <<>>, x, r)
    /\ UNCHANGED constructed

Next ==
    \/ NewAsType
    \/ NewAverageChannels
    \/ CallAsType
    \/ CallEnsureTorch
    \/ CallEnsureNumpy
    \/ CallAverageChannels

Spec == Init /\ [][Next]_vars

(* ------------------------------ properties ----------------------------- *)

\* the effective bounds of the configured AverageChannels on n channels
EffStart == IF constructed.start_channel.isNone THEN 0 ELSE constructed.start_channel.v

EffStop(n) == IF constructed.stop_channel.isNone THEN n ELSE constructed.stop_channel.v

\* a call of AverageChannels.apply_to_chosen on a value that has a channel axis
AvgCalled == call.op = "AverageChannels" /\ Len(call.input.shape) >= 2

AllEqual(v, q) == \A i \in DOMAIN v.data : v.data[i] = q

SameElements(v, w) ==
    /\ v.shape = w.shape
    /\ \A i \in DOMAIN w.data : v.data[i] = w.data[i]

\* C1: AverageChannels.apply_to_chosen raises the invalid-channel-range error
\* (ValueError, line 64) exactly when NOT (start < stop <= total_channels),
\* with None read as 0 and as total_channels, for every configured bound and
\* channel count; when it does, nothing was sliced or averaged and there is no
\* result.
C1_InvalidRangeIff ==
    AvgCalled =>
        LET total == call.input.shape[2]
            valid == EffStart < EffStop(total) /\ EffStop(total) <= total
        IN /\ (call.raised = "ValueError") <=> ~valid
           /\ call.raised = "ValueError" => (call.ops = <<>> /\ call.value = NoValue)

\* AverageChannels(0, 5) raised on a tensor of four channels
C1_Witness ==
    /\ AvgCalled
    /\ call.input.shape[2] = 4
    /\ constructed.start_channel = Some(0)
    /\ constructed.stop_channel = Some(5)
    /\ call.raised = "ValueError"
    /\ call.ops = <<>>

RECURSIVE SumChannels(_, _, _, _)
SumChannels(data, i, lo, hi) ==
    IF hi <= lo THEN Q(0)
    ELSE QAdd(SumChannels(data, i, lo, hi - 1), data[[i EXCEPT ![2] = hi - 1]])

\* C2: whenever AverageChannels.apply_to_chosen returns, the channels
\* start..stop-1 are a non-empty set within 0..total_channels-1, the output
\* has the input's shape with axis 1 of size 1, and every output element is
\* the mean of the input over exactly those channels at the same position.
C2_MeanOfConfiguredRange ==
    (AvgCalled /\ call.raised = "") =>
        LET x     == call.input
            total == x.shape[2]
            start == EffStart
            stop  == EffStop(total)
        IN /\ 0 <= start /\ start < stop /\ stop <= total
           /\ call.value.shape = [x.shape EXCEPT ![2] = 1]
           /\ \A i \in Idx(call.value.shape) :
                 call.value.data[i] = QDiv(SumChannels(x.data, i, start, stop), stop - start)

FailedAsTypeInit(c) == c.op = "AsType.__init__" /\ c.raised # ""

\* C3 as stated: every failing construction of AsType fails with one and the
\* same error kind, whether the identifier is missing from the registry or
\* names something that is no element type.
C3_SingleErrorKind ==
    [][(FailedAsTypeInit(call) /\ FailedAsTypeInit(call')) => call'.raised = call.raised]_vars

\* C3 amended: a construction of AsType fails exactly when the identifier
\* does not resolve to an element type, and then no instance exists; the
\* error is AttributeError when the identifier is not in the registry and
\* TypeError when it names a registry entry that is no element type.
C3_TwoErrorKinds ==
    call.op = "AsType.__init__" =>
        LET name == call.args[1]
        IN /\ name \notin {"float32", "float", "int32", "Tensor"}
                => (call.raised = "AttributeError" /\ transform = NoTransform)
           /\ name = "Tensor"
                => (call.raised = "TypeError" /\ transform = NoTransform)
           /\ name \in {"float32", "float", "int32"}
                => (call.raised = "" /\ transform.cls = "AsType")

\* AsType("Tensor", ...) failed with TypeError and left no instance
C3_Witness ==
    /\ call.op = "AsType.__init__"
    /\ call.args[1] = "Tensor"
    /\ call.raised = "TypeError"
    /\ transform = NoTransform

\* EnsureTorch on the scenario array, then AverageChannels(0, 4) on the result
ScenarioPiped ==
    /\ call.op = "AverageChannels"
    /\ constructed.start_channel = Some(0)
    /\ constructed.stop_channel = Some(4)
    /\ before.op = "EnsureTorch"
    /\ before.input = ScenarioArray

\* C4 as stated: the scenario completes without error and yields a tensor of
\* shape [2,1,3,3] whose values are all 5.
C4_ScenarioCompletes ==
    ScenarioPiped =>
        /\ call.raised = ""
        /\ call.value.shape = <<2, 1, 3, 3>>
        /\ AllEqual(call.value, Q(5))

\* C4 amended: EnsureTorch turns the scenario array into an int32 tensor of
\* shape [2,4,3,3] with all values 5; AverageChannels(0, 4) accepts the range
\* and slices, and the mean reduction then rejects the integer tensor with
\* the library's RuntimeError, so no tensor is produced.
C4_ScenarioRaises ==
    ScenarioPiped =>
        /\ before.raised = ""
        /\ call.input.kind = "tensor"
        /\ call.input.dtype = "int32"
        /\ call.input.shape = <<2, 4, 3, 3>>
        /\ AllEqual(call.input, Q(5))
        /\ call.raised = "RuntimeError"
        /\ call.ops = <<"getitem", "mean">>
        /\ call.value = NoValue

\* the scenario has run
C4_Witness == ScenarioPiped /\ call.raised = "RuntimeError"

\* C5: EnsureTorch.apply_to_chosen on a uint16 host array returns an int32
\* tensor of the same shape whose every element equals the input's element
\* (values up to 65535 included); a host array of another element type goes
\* to the conversion routine as it is, without widening.
C5_Uint16Widened ==
    (call.op = "EnsureTorch" /\ call.input.kind = "ndarray") =>
        IF call.input.dtype = "uint16"
        THEN /\ call.raised = ""
             /\ call.value.kind = "tensor"
             /\ call.value.dtype = "int32"
             /\ SameElements(call.value, call.input)
        ELSE /\ call.ops = <<"from_numpy">>
             /\ call.raised = "" =>
                   /\ call.value.kind = "tensor"
                   /\ call.value.dtype = call.input.dtype
                   /\ SameElements(call.value, call.input)

\* a uint16 array holding 65535 and 32768 was converted
C5_Witness ==
    /\ call.op = "EnsureTorch"
    /\ call.input.kind = "ndarray"
    /\ call.input.dtype = "uint16"
    /\ \E i \in DOMAIN call.input.data : call.input.data[i] = Q(65535)
    /\ \E i \in DOMAIN call.input.data : call.input.data[i] = Q(32768)
    /\ call.value.dtype = "int32"

\* EnsureNumpy applied to the result of EnsureTorch applied to a host array
RoundTrip ==
    /\ call.op = "EnsureNumpy"
    /\ before.op = "EnsureTorch"
    /\ before.input.kind = "ndarray"

RoundTripEqual ==
    /\ call.raised = ""
    /\ call.value.kind = "ndarray"
    /\ SameElements(call.value, before.input)

\* C6 as stated: for any host array x the round trip
\* EnsureNumpy(EnsureTorch(x)) exists and is a host array of the shape and
\* element values of x.
C6_RoundTripAny ==
    /\ (call.op = "EnsureTorch" /\ call.input.kind = "ndarray") => call.raised = ""
    /\ RoundTrip => RoundTripEqual

\* C6 amended: for a host array x whose element type is unsigned 16-bit or
\* one the conversion routine accepts, the round trip is a host array of the
\* shape and element values of x, of x's element type unless that is uint16;
\* for other element types EnsureTorch raises the routine's TypeError.
C6_RoundTripConvertible ==
    /\ (call.op = "EnsureTorch" /\ call.input.kind = "ndarray") =>
          IF call.input.dtype \in {"uint16", "int32", "float32"}
          THEN call.raised = ""
          ELSE call.raised = "TypeError"
    /\ RoundTrip =>
          /\ RoundTripEqual
          /\ call.value.dtype = IF before.input.dtype = "uint16" THEN "int32"
                                ELSE before.input.dtype

\* a uint16 array went through the round trip
C6_Witness ==
    /\ RoundTrip
    /\ before.input.dtype = "uint16"
    /\ call.value.kind = "ndarray"
    /\ \E i \in DOMAIN call.value.data : call.value.data[i] = Q(65535)

\* C7: EnsureTorch.apply_to_chosen returns a native tensor as the very same
\* object, with no library call made; so applying it to its own result
\* returns that result itself.
C7_IdentityOnTensors ==
    /\ (call.op = "EnsureTorch" /\ call.input.kind = "tensor") =>
          (call.raised = "" /\ call.value = call.input /\ call.ops = <<>>)
    /\ (call.op = "EnsureTorch" /\ before.op = "EnsureTorch") =>
          (call.raised = "" /\ call.value = before.value)

\* EnsureTorch was applied to its own result for a host array
C7_Witness ==
    /\ call.op = "EnsureTorch"
    /\ before.op = "EnsureTorch"
    /\ before.input.kind = "ndarray"
    /\ call.value.kind = "tensor"

\* C8: EnsureNumpy.apply_to_chosen always returns a host array: a host array
\* comes back as the same object with no library call made; a tensor, graph
\* attached or not, on the device or not, goes through detach, cpu, numpy in
\* this order, and numpy never refuses it.
C8_AlwaysHostArray ==
    call.op = "EnsureNumpy" =>
        /\ call.raised = ""
        /\ call.value.kind = "ndarray"
        /\ ~call.value.requires_grad
        /\ call.value.device = "cpu"
        /\ IF call.input.kind = "ndarray"
           THEN call.value = call.input /\ call.ops = <<>>
           ELSE call.ops = <<"detach", "cpu", "numpy">>
                /\ SameElements(call.value, call.input)

\* a graph-attached tensor on the device was converted
C8_Witness ==
    /\ call.op = "EnsureNumpy"
    /\ call.input.kind = "tensor"
    /\ call.input.requires_grad
    /\ call.input.device = "cuda"
    /\ call.value.kind = "ndarray"

\* C9: a constructed AsType holds the element type its dtype name resolves
\* to and the non-blocking flag it was given; apply_to_chosen returns a
\* tensor of that element type whatever the input's element type, and hands
\* that flag to Tensor.type.
C9_ConfiguredType ==
    /\ (call.op = "AsType.__init__" /\ call.raised = "") =>
          /\ transform.kwargs.dtype =
                (IF call.args[1] = "int32" THEN "int32" ELSE "float32")
          /\ transform.kwargs.non_blocking = call.args[2]
    /\ (call.op = "AsType" /\ call.input.kind = "tensor") =>
          /\ call.raised = ""
          /\ call.value.kind = "tensor"
          /\ call.value.dtype = constructed.kwargs.dtype
          /\ call.value.shape = call.input.shape
          /\ call.ops = <<TypeOp(constructed.kwargs.dtype, constructed.kwargs.non_blocking)>>

\* an int32 tensor was retyped to float32 with the non-blocking flag set
C9_Witness ==
    /\ call.op = "AsType"
    /\ call.input.kind = "tensor"
    /\ call.input.dtype = "int32"
    /\ constructed.kwargs.non_blocking
    /\ call.value.dtype = "float32"

Outcome(r) == <<r.raised, r.value, r.ops>>

\* C10: whatever calls were made, failed ones included, the configuration is
\* the one the constructor set, and the outcome of a call is the outcome for
\* (that configuration, input).
C10_Stateless ==
    /\ transform = constructed
    /\ call.op = "AverageChannels" =>
          Outcome(call) = Outcome(AverageChannels_apply_to_chosen(constructed, call.input))
    /\ call.op = "AsType" =>
          Outcome(call) = Outcome(AsType_apply_to_chosen(constructed, call.input, call.args[1]))

\* a call of AverageChannels with an open stop bound failed the range check
C10_Witness ==
    /\ AvgCalled
    /\ constructed.stop_channel = None
    /\ call.raised = "ValueError"
    /\ transform = constructed

====
